---- MODULE Spec2Model ----
(***************************************************************************)
(* pool-cost-tracker: the invoice reconciliation engine.                   *)
(*                                                                         *)
(*   api/app/sync_service.py  sync_invoices, sync_run_to_out               *)
(*   api/app/main.py          update_invoice, resolve_invoice_review       *)
(*   api/app/models.py        Invoice, SyncRun                             *)
(*                                                                         *)
(* The state is the committed content of the two tables and a wall clock.  *)
(* Every request handler is one action: it reads the committed rows, works *)
(* on its in-memory copies and ends with its commit.  SpecOverlap alone    *)
(* takes a pass in its steps: the fetch it awaits, the load of the rows,   *)
(* the commit.                                                             *)
(***************************************************************************)
EXTENDS Integers, Sequences, FiniteSets, TLC

VARIABLES
    invoices,   \* table invoices: the rows in primary-key order (id = position)
    sync_runs,  \* table sync_runs: the rows in primary-key order (id = position)
    clock,      \* what datetime.utcnow() returns now
    last,       \* the last request served: its kind, its input and its answer
    inflight    \* the passes under way: for each caller its position, the
                \* documents it fetched and its locals

vars == <<invoices, sync_runs, clock, last, inflight>>

---------------------------------------------------------------------------
(* Bounds of the exploration *)

\* passes recorded in the ledger
MaxRuns == 2

\* the latest time the clock shows
MaxClock == 1

\* documents in one fetched batch (SpecBatch)
MaxBatch == 3

---------------------------------------------------------------------------
(* Python values.  Optional[T]: None is the empty tuple and a value x is   *)
(* <<x>>, so that None compares unequal to every value.  Amounts are       *)
(* Decimals with two places, written in cents.  A datetime is a wall time  *)
(* and whether it carries a tzinfo.                                         *)

None == <<>>

Some(x) == <<x>>

\* d.get(key, default) for a key that is present with a non-None value or absent
GetOr(v, default) == IF v = None THEN default ELSE v[1]

\* bool(x) of an Optional[bool]
Bool(v) == IF v = None THEN FALSE ELSE v[1]

\* a pydantic field that was not sent (dropped by exclude_unset) / sent as v
Unset == <<>>

Sent(v) == <<v>>

---------------------------------------------------------------------------
(* The inputs: documents as PaperlessClient._normalize_document returns    *)
(* them, each with what extract_invoice_fields answers for its content.    *)

Document(id, created, title) ==
    [id            |-> id,
     title         |-> title,
     created       |-> created,
     correspondent |-> Some("Correspondent GmbH"),
     content       |-> "Brutto 123,45 EUR",
     document_type |-> Some("Rechnung")]

\* The dict extract_invoice_fields returns.  vendor, amount, confidence and
\* debug_json are read with .get(key): None is an absent key or a None value.
\* currency and needs_review are read with .get(key, default): None is an
\* absent key.
Extracted(vendor, amount, needs_review) ==
    [vendor       |-> vendor,
     amount       |-> amount,
     currency     |-> Some("EUR"),
     confidence   |-> Some(88),
     needs_review |-> needs_review,
     debug_json   |-> Some("{source:test}")]

\* extract_invoice_fields returned fields / raised an exception with text msg
Returns(fields) == [error |-> None, fields |-> fields]

Raises(msg) == [error |-> Some(msg), fields |-> Extracted(None, None, None)]

Item(doc, extract) == [doc |-> doc, extract |-> extract]

Vendors == {None, Some("Auto GmbH")}

Amounts == {None, Some(12345)}

Signals == {None, Some(TRUE), Some(FALSE)}

CreatedValues == {Some("2026-01-15T10:00:00Z"), Some("2026-01-15T10:00:00")}

Extractions ==
    {Returns(Extracted(v, a, s)) : v \in Vendors, a \in Amounts, s \in Signals}
        \cup {Raises("extraction failed")}

\* Spec: the passes fetch the one document 1, or nothing
DetailBatches ==
    {<<>>} \cup
    {<<Item(Document(Some(1), c, Some("Rechnung 1")), e)>> :
        c \in CreatedValues, e \in Extractions}

\* a fetched batch carries each id at most once
DistinctIds(docs) ==
    \A i, j \in 1..Len(docs) :
        (i # j /\ docs[i].doc.id # None) => docs[i].doc.id # docs[j].doc.id

\* SpecBatch: the passes fetch up to MaxBatch documents, with and without an
\* id, with extractions that return and extractions that raise
BatchExtractions ==
    {Returns(Extracted(Some("Auto GmbH"), Some(12345), Some(FALSE))),
     Raises("extraction failed"),
     Raises("amount unreadable")}

BatchItems ==
    {Item(Document(None, Some("2026-01-15T10:00:00"), Some("Ohne Id")),
          Returns(Extracted(Some("Auto GmbH"), Some(12345), Some(FALSE))))}
    \cup
    {Item(Document(Some(id), Some("2026-01-15T10:00:00"), Some("Rechnung")), e) :
        id \in {1, 2}, e \in BatchExtractions}

Batches ==
    {docs \in UNION {[1..n -> BatchItems] : n \in 0..MaxBatch} : DistinctIds(docs)}

\* SpecErrors: the passes fetch documents 1, 2 and 3; the extraction of
\* document 1 returns, those of documents 2 and 3 return or raise, each with
\* its own text
ErrorItem(id, e) ==
    Item(Document(Some(id), Some("2026-01-15T10:00:00"), Some("Rechnung")), e)

ErrorItems ==
    {ErrorItem(id, Returns(Extracted(Some("Auto GmbH"), Some(12345), Some(FALSE)))) :
        id \in {1, 2, 3}}
    \cup {ErrorItem(2, Raises("extraction failed")),
          ErrorItem(3, Raises("amount unreadable"))}

\* the documents of a batch listed by ascending id
InIdOrder(docs) ==
    \A i, j \in 1..Len(docs) : i < j => docs[i].doc.id[1] < docs[j].doc.id[1]

ErrorBatches ==
    {docs \in UNION {[1..n -> ErrorItems] : n \in 0..MaxBatch} : InIdOrder(docs)}

\* SpecFaults: the passes fetch documents 1 and 2, and a batch may carry
\* document 1 twice
FaultItem(id) ==
    Item(Document(Some(id), Some("2026-01-15T10:00:00"), Some("Rechnung")),
         Returns(Extracted(Some("Auto GmbH"), Some(12345), Some(FALSE))))

FaultBatches ==
    {<<>>,
     <<FaultItem(1)>>,
     <<FaultItem(2)>>,
     <<FaultItem(1), FaultItem(1)>>,
     <<FaultItem(1), FaultItem(2)>>,
     <<FaultItem(2), FaultItem(1), FaultItem(1)>>}

\* the two calls of the fetch that can raise
FetchCalls == {"get_tag_id_by_name", "get_project_documents"}

\* SpecJson: the documents as Paperless sends them, the id a JSON value
\* written as text; "A-3" is no integer
JsonItem(id, e) ==
    Item(Document(id, Some("2026-01-15T10:00:00"), Some("Rechnung")), e)

JsonItems ==
    {JsonItem(id, Returns(Extracted(Some("Auto GmbH"), Some(12345), Some(FALSE)))) :
        id \in {Some("1"), Some("2"), Some("A-3")}}
    \cup {JsonItem(Some("2"), Raises("extraction failed"))}

JsonBatches ==
    UNION {[1..n -> JsonItems] : n \in 0..MaxBatch}

\* SpecCreated: the documents 1 and 2, each with a creation timestamp in ISO
\* format or with one that datetime.fromisoformat rejects
CreatedItem(id, created) ==
    Item(Document(Some(id), Some(created), Some("Rechnung")),
         Returns(Extracted(Some("Auto GmbH"), Some(12345), Some(FALSE))))

CreatedItems ==
    {CreatedItem(id, created) :
        id \in {1, 2}, created \in {"2026-01-15T10:00:00", "15.01.2026"}}

CreatedBatches ==
    {docs \in UNION {[1..n -> CreatedItems] : n \in 0..MaxBatch} : InIdOrder(docs)}

\* SpecOverlap: document 1 as two extractions read it, alone or with
\* document 2
OverlapItem(id, vendor) ==
    Item(Document(Some(id), Some("2026-01-15T10:00:00"), Some("Rechnung")),
         Returns(Extracted(Some(vendor), Some(12345), Some(FALSE))))

OverlapBatches ==
    {<<OverlapItem(1, "Auto GmbH")>>,
     <<OverlapItem(1, "Neu GmbH")>>,
     <<OverlapItem(1, "Auto GmbH"), OverlapItem(2, "Auto GmbH")>>}

\* who runs sync_invoices: the handler of POST /sync and the scheduled job
Callers == {"post", "job"}

\* SpecHistory: the passes fetch nothing or document 1 and take no time or
\* two seconds; the ledger is read with these limits
HistoryBatches == {<<>>, <<FaultItem(1)>>}

Durations == {0, 2000}

Limits == {1, 2, 10}

\* what the editor sends to PUT /invoices/{id}
InvoiceUpdate(vendor, amount, needs_review, reset_vendor, reset_amount) ==
    [vendor       |-> vendor,
     amount       |-> amount,
     needs_review |-> needs_review,
     reset_vendor |-> reset_vendor,
     reset_amount |-> reset_amount]

\* Spec: the editor corrects fields, or resets fields and sets the flag
DetailPayloads ==
    {InvoiceUpdate(v, a, Unset, Unset, Unset) :
        v \in {Unset, Sent(Some("Manuell GmbH"))},
        a \in {Unset, Sent(Some(33333))}}
    \cup
    {InvoiceUpdate(Unset, Unset, n, rv, ra) :
        n  \in {Unset, Sent(Some(TRUE))},
        rv \in {Unset, Sent(Some(TRUE))},
        ra \in {Unset, Sent(Some(TRUE))}}

\* SpecEdits: the editor sends a vendor, a null vendor included, an amount, a
\* null amount included, and needs_review, in every combination, or resets
EditPayloads ==
    {InvoiceUpdate(v, a, n, Unset, Unset) :
        v \in {Unset, Sent(None), Sent(Some("Manuell GmbH"))},
        a \in {Unset, Sent(None), Sent(Some(33333))},
        n \in {Unset, Sent(Some(TRUE))}}
    \cup
    {InvoiceUpdate(Unset, Unset, Unset, rv, ra) :
        rv \in {Unset, Sent(Some(TRUE))},
        ra \in {Unset, Sent(Some(TRUE))}}

\* SpecFaults: the editor corrects the vendor, or resets it
FaultPayloads ==
    {InvoiceUpdate(Sent(Some("Manuell GmbH")), Unset, Unset, Unset, Unset),
     InvoiceUpdate(Unset, Unset, Unset, Sent(Some(TRUE)), Unset)}

---------------------------------------------------------------------------
(* Conversions *)

\* str(doc['created']).replace('Z', '+00:00')
ReplaceZ(s) ==
    IF s = "2026-01-15T10:00:00Z" THEN "2026-01-15T10:00:00+00:00" ELSE s

\* datetime.fromisoformat: the datetime, or ValueError (ok = FALSE)
FromIsoFormat(s) ==
    CASE s = "2026-01-15T10:00:00+00:00" ->
            [ok |-> TRUE, value |-> [wall |-> "2026-01-15 10:00:00", aware |-> TRUE]]
      [] s = "2026-01-15T10:00:00" ->
            [ok |-> TRUE, value |-> [wall |-> "2026-01-15 10:00:00", aware |-> FALSE]]
      [] s = "2026-01-15" ->
            [ok |-> TRUE, value |-> [wall |-> "2026-01-15 00:00:00", aware |-> FALSE]]
      [] OTHER ->
            [ok |-> FALSE, value |-> [wall |-> "", aware |-> FALSE]]

ParseCreated_KeepsText(created) ==
    IF created = None \/ created = Some("")
    THEN None
    ELSE LET parsed == FromIsoFormat(ReplaceZ(created[1]))
         IN IF parsed.ok
            THEN Some(parsed.value)
            ELSE Some([wall |-> created[1], aware |-> FALSE])

\* the defensive parse of the creation timestamp
ParseCreated(created) ==
    IF created = None \/ created = Some("")
    THEN None
    ELSE LET parsed == FromIsoFormat(ReplaceZ(created[1]))
         IN IF parsed.ok THEN Some(parsed.value) ELSE None

\* A DateTime column has no time zone: what is read back is naive.
DateTimeColumn(v) ==
    IF v = None THEN None ELSE Some([wall |-> v[1].wall, aware |-> FALSE])

\* the row as the table holds it once it is flushed
Stored(row) ==
    [row EXCEPT !.paperless_created = DateTimeColumn(@)]

---------------------------------------------------------------------------
(* sync_invoices *)

\* int(doc['id'])
int(value) ==
    CASE value = "1" -> [ok |-> TRUE, value |-> 1]
      [] value = "2" -> [ok |-> TRUE, value |-> 2]
      [] OTHER       -> [ok |-> FALSE, value |-> 0]

\* doc_ids = [int(doc['id']) for doc in docs if doc.get('id') is not None]
\* raises ValueError at the first id that is no integer: the positions of
\* such ids
NoIntegerIds(json) ==
    {i \in 1..Len(json) : json[i].doc.id # None /\ ~int(json[i].doc.id[1]).ok}

\* the documents with their ids converted
WithIntegerIds(json) ==
    [i \in 1..Len(json) |->
        [json[i] EXCEPT !.doc.id = IF @ = None THEN None ELSE Some(int(@[1]).value)]]

\* existing = {row.paperless_doc_id: row for row in SELECT ... WHERE
\* paperless_doc_id IN doc_ids}: the rows loaded once per pass, each with its
\* primary key, its in-memory attributes and the attributes set since the load
LoadExisting(docs, table) ==
    LET doc_ids == {docs[i].doc.id[1] :
                        i \in {j \in 1..Len(docs) : docs[j].doc.id # None}}
        rowsOf(d) == {r \in 1..Len(table) : table[r].paperless_doc_id = d}
        found == {d \in doc_ids : rowsOf(d) # {}}
    IN [d \in found |->
            LET r == CHOOSE x \in rowsOf(d) : \A y \in rowsOf(d) : y <= x
            IN [id |-> r, row |-> table[r], dirty |-> {}]]

\* the locals of the pass before its loop
StartOfLoop(docs, table) ==
    [existing         |-> LoadExisting(docs, table),
     added            |-> <<>>,
     inserted         |-> 0,
     updated          |-> 0,
     skipped          |-> 0,
     error_count      |-> 0,
     first_error_text |-> None,
     duration_ms      |-> 0,
     outcomes         |-> <<>>]

\* new_data as built for every document
NewData(doc, extracted, now) ==
    [source            |-> "paperless",
     paperless_doc_id  |-> doc.id[1],
     paperless_created |-> ParseCreated(doc.created),
     title             |-> doc.title,
     vendor_auto       |-> extracted.vendor,
     amount_auto       |-> extracted.amount,
     currency          |-> GetOr(extracted.currency, "EUR"),
     confidence        |-> GetOr(extracted.confidence, 0),
     extracted_at      |-> now,
     debug_json        |-> extracted.debug_json,
     correspondent     |-> doc.correspondent,
     document_type     |-> doc.document_type,
     ocr_text          |-> doc.content]

ExtractorSignal_DefaultFalse(extracted) == GetOr(extracted.needs_review, FALSE)

\* needs_review = bool(extracted.get('needs_review', True))
ExtractorSignal(extracted) == GetOr(extracted.needs_review, TRUE)

InsertData_Unseeded(doc, extracted, now) ==
    NewData(doc, extracted, now) @@
    [vendor        |-> None,
     amount        |-> None,
     vendor_source |-> "auto",
     amount_source |-> "auto",
     needs_review  |-> ExtractorSignal(extracted)]

\* the insert path: Invoice(**new_data) with both visible fields seeded
InsertData(doc, extracted, now) ==
    NewData(doc, extracted, now) @@
    [vendor        |-> extracted.vendor,
     amount        |-> extracted.amount,
     vendor_source |-> "auto",
     amount_source |-> "auto",
     needs_review  |-> ExtractorSignal(extracted)]

VendorData_Always(inv, extracted) == [vendor |-> extracted.vendor]

\* the visible vendor is part of new_data only when its source is auto
VendorData(inv, extracted) ==
    IF inv.vendor_source = "auto" THEN [vendor |-> extracted.vendor] ELSE <<>>

AmountData_Always(inv, extracted) == [amount |-> extracted.amount]

\* the visible amount is part of new_data only when its source is auto
AmountData(inv, extracted) ==
    IF inv.amount_source = "auto" THEN [amount |-> extracted.amount] ELSE <<>>

ReviewData_FollowsSignal(inv, extracted) ==
    [needs_review |-> ExtractorSignal(extracted)]

\* Manual overrides should not be reverted to review-required by sync.
ReviewData(inv, extracted) ==
    IF inv.vendor_source = "manual" \/ inv.amount_source = "manual"
    THEN [needs_review |-> FALSE]
    ELSE [needs_review |-> ExtractorSignal(extracted)]

\* the update path: new_data for an invoice that exists
UpdateData(inv, doc, extracted, now) ==
    NewData(doc, extracted, now)
        @@ VendorData(inv, extracted)
        @@ AmountData(inv, extracted)
        @@ ReviewData(inv, extracted)

ChangedKeys_ButExtractedAt(inv, new_data) ==
    {key \in DOMAIN new_data \ {"extracted_at"} : inv[key] # new_data[key]}

\* the keys of new_data whose value differs from the attribute of the row
ChangedKeys(inv, new_data) ==
    {key \in DOMAIN new_data : inv[key] # new_data[key]}

ApplyChanges_SkipsNone(inv, new_data) ==
    [key \in DOMAIN inv |->
        IF /\ key \in DOMAIN new_data
           /\ inv[key] # new_data[key]
           /\ (key \in {"vendor", "amount"} => new_data[key] # None)
        THEN new_data[key]
        ELSE inv[key]]

\* for key, value in new_data.items(): setattr(inv, key, value) where it differs
ApplyChanges(inv, new_data) ==
    [key \in DOMAIN inv |->
        IF key \in DOMAIN new_data /\ inv[key] # new_data[key]
        THEN new_data[key]
        ELSE inv[key]]

CountError_LastWins(L, msg) ==
    [L EXCEPT !.error_count = @ + 1,
              !.first_error_text = Some(msg),
              !.outcomes = Append(@, "error")]

CountError_Rollback(L, msg) ==
    [L EXCEPT !.error_count = @ + 1,
              !.first_error_text = IF @ = None THEN Some(msg) ELSE @,
              !.outcomes = Append(@, "error"),
              !.added = <<>>]

\* except Exception as exc: count it and keep the first text
CountError(L, msg) ==
    [L EXCEPT !.error_count = @ + 1,
              !.first_error_text = IF @ = None THEN Some(msg) ELSE @,
              !.outcomes = Append(@, "error")]

\* one iteration of the loop over docs
ProcessDocument(L, item, now) ==
    LET doc == item.doc
        id  == doc.id[1]
    IN IF doc.id = None
       THEN [L EXCEPT !.outcomes = Append(@, "no id")]
       ELSE IF item.extract.error # None
       THEN CountError(L, item.extract.error[1])
       ELSE IF id \notin DOMAIN L.existing
       THEN [L EXCEPT !.added = Append(@, InsertData(doc, item.extract.fields, now)),
                      !.inserted = @ + 1,
                      !.outcomes = Append(@, "inserted")]
       ELSE LET inv      == L.existing[id].row
                new_data == UpdateData(inv, doc, item.extract.fields, now)
                changed  == ChangedKeys(inv, new_data)
            IN IF changed # {}
               THEN [L EXCEPT !.existing[id].row = ApplyChanges(inv, new_data),
                              !.existing[id].dirty = @ \cup changed,
                              !.updated = @ + 1,
                              !.outcomes = Append(@, "updated")]
               ELSE [L EXCEPT !.skipped = @ + 1,
                              !.outcomes = Append(@, "skipped")]

\* for doc in docs: ...
RECURSIVE SyncLoop(_, _, _)
SyncLoop(L, docs, now) ==
    IF docs = <<>>
    THEN L
    ELSE SyncLoop(ProcessDocument(L, Head(docs), now), Tail(docs), now)

\* the SyncRun row of the pass
SyncRunRow(docs, L, finished_at) ==
    [finished_at      |-> finished_at,
     duration_ms      |-> L.duration_ms,
     checked_docs     |-> Len(docs),
     new_invoices     |-> L.inserted,
     updated_invoices |-> L.updated,
     skipped_invoices |-> L.skipped,
     error_count      |-> L.error_count,
     last_error_text  |-> L.first_error_text]

\* the SyncResponse returned to the caller
SyncResponse(docs, L, finished_at) ==
    [finished_at      |-> finished_at,
     duration_ms      |-> L.duration_ms,
     checked_docs     |-> Len(docs),
     new_invoices     |-> L.inserted,
     updated_invoices |-> L.updated,
     skipped_invoices |-> L.skipped,
     errors           |-> [count |-> L.error_count, first_error |-> L.first_error_text]]

UniqueViolation_Unchecked(table, added) == FALSE

\* uq_invoices_paperless_doc_id: the flush fails when two rows would carry
\* the same paperless_doc_id
UniqueViolation(table, added) ==
    \/ \E i, j \in 1..Len(added) :
            i # j /\ added[i].paperless_doc_id = added[j].paperless_doc_id
    \/ \E i \in 1..Len(added), r \in 1..Len(table) :
            added[i].paperless_doc_id = table[r].paperless_doc_id

FlushRow_Touches(current, loaded, now) ==
    [key \in DOMAIN current |->
        IF key = "updated_at" THEN now
        ELSE IF key \in loaded.dirty THEN Stored(loaded.row)[key]
        ELSE current[key]]

\* the UPDATE of one loaded row: the attributes set since the load, and
\* updated_at by its onupdate
FlushRow(current, loaded, now) ==
    IF loaded.dirty = {}
    THEN current
    ELSE [key \in DOMAIN current |->
            IF key = "updated_at" THEN now
            ELSE IF key \in loaded.dirty THEN Stored(loaded.row)[key]
            ELSE current[key]]

FlushInvoices_TouchesAll(table, L, now) ==
    LET loadedAs(r) == {d \in DOMAIN L.existing : L.existing[d].id = r}
        updatedRows ==
            [r \in 1..Len(table) |->
                IF loadedAs(r) = {}
                THEN [table[r] EXCEPT !.updated_at = now]
                ELSE FlushRow(table[r], L.existing[CHOOSE d \in loadedAs(r) : TRUE], now)]
        insertedRows ==
            [i \in 1..Len(L.added) |-> Stored(L.added[i] @@ [updated_at |-> now])]
    IN updatedRows \o insertedRows

\* the table after db.commit(): the UPDATEs, then the INSERTs
FlushInvoices(table, L, now) ==
    LET loadedAs(r) == {d \in DOMAIN L.existing : L.existing[d].id = r}
        updatedRows ==
            [r \in 1..Len(table) |->
                IF loadedAs(r) = {}
                THEN table[r]
                ELSE FlushRow(table[r], L.existing[CHOOSE d \in loadedAs(r) : TRUE], now)]
        insertedRows ==
            [i \in 1..Len(L.added) |-> Stored(L.added[i] @@ [updated_at |-> now])]
    IN updatedRows \o insertedRows

---------------------------------------------------------------------------
(* last_sync and sync_runs *)

\* sync_run_to_out of the row with primary key id
sync_run_to_out(sync_run, id) ==
    [id               |-> id,
     finished_at      |-> sync_run.finished_at,
     duration_ms      |-> sync_run.duration_ms,
     checked_docs     |-> sync_run.checked_docs,
     new_invoices     |-> sync_run.new_invoices,
     updated_invoices |-> sync_run.updated_invoices,
     skipped_invoices |-> sync_run.skipped_invoices,
     errors           |-> [count       |-> sync_run.error_count,
                           first_error |-> sync_run.last_error_text]]

OrderedFirst_ById(table, a, b) == a > b

\* order_by(SyncRun.finished_at.desc(), SyncRun.id.desc()): row a comes
\* before row b
OrderedFirst(table, a, b) ==
    \/ table[a].finished_at > table[b].finished_at
    \/ table[a].finished_at = table[b].finished_at /\ a > b

\* the primary keys ids in that order
RECURSIVE OrderBy(_, _)
OrderBy(table, ids) ==
    IF ids = {}
    THEN <<>>
    ELSE LET first == CHOOSE a \in ids : \A b \in ids \ {a} : OrderedFirst(table, a, b)
         IN <<first>> \o OrderBy(table, ids \ {first})

\* .limit(limit)
Limit(rows, limit) ==
    SubSeq(rows, 1, IF limit < Len(rows) THEN limit ELSE Len(rows))

\* GET /sync/runs: the answer of sync_runs(limit)
SyncRunsOut(table, limit) ==
    LET ids == Limit(OrderBy(table, 1..Len(table)), limit)
    IN [i \in 1..Len(ids) |-> sync_run_to_out(table[ids[i]], ids[i])]

\* _get_last_sync_run_record: the primary key of the first row of the order
get_last_sync_run_record(table) ==
    LET ids == Limit(OrderBy(table, 1..Len(table)), 1)
    IN IF ids = <<>> THEN None ELSE Some(ids[1])

\* GET /sync/last: the answer of last_sync()
LastSyncOut(table) ==
    LET last_run == get_last_sync_run_record(table)
    IN IF last_run = None
       THEN None
       ELSE Some(sync_run_to_out(table[last_run[1]], last_run[1]))

---------------------------------------------------------------------------
(* update_invoice and resolve_invoice_review *)

\* bool(changes.pop('reset_vendor', False)) and the like
Flag(field) == field # Unset /\ Bool(field[1])

\* if 'amount' in changes and changes['amount'] is not None: ...
EditAmount(invoice, payload) ==
    IF payload.amount # Unset /\ payload.amount[1] # None
    THEN [invoice EXCEPT
            !.amount_source = IF invoice.amount # payload.amount[1] THEN "manual" ELSE @,
            !.amount = payload.amount[1]]
    ELSE invoice

\* if 'vendor' in changes: ...
EditVendor(invoice, payload) ==
    IF payload.vendor # Unset
    THEN [invoice EXCEPT
            !.vendor_source =
                IF payload.vendor[1] # None /\ invoice.vendor # payload.vendor[1]
                THEN "manual" ELSE @,
            !.vendor = payload.vendor[1]]
    ELSE invoice

\* if reset_vendor: ...
ResetVendor(invoice, payload) ==
    IF Flag(payload.reset_vendor)
    THEN [invoice EXCEPT
            !.vendor_source = "auto",
            !.vendor = IF invoice.vendor_auto # None THEN invoice.vendor_auto ELSE @]
    ELSE invoice

\* if reset_amount: ...
ResetAmount(invoice, payload) ==
    IF Flag(payload.reset_amount)
    THEN [invoice EXCEPT
            !.amount_source = "auto",
            !.amount = IF invoice.amount_auto # None THEN invoice.amount_auto ELSE @]
    ELSE invoice

\* the truth value of invoice.vendor
Truthy(vendor) == vendor # None /\ vendor # Some("")

\* if 'needs_review' in changes: ... elif (an edit or a reset): ...
ReviewAfterEdit(invoice, payload) ==
    IF payload.needs_review # Unset
    THEN [invoice EXCEPT !.needs_review = Bool(payload.needs_review[1])]
    ELSE IF \/ payload.vendor # Unset
            \/ payload.amount # Unset
            \/ Flag(payload.reset_vendor)
            \/ Flag(payload.reset_amount)
    THEN IF Truthy(invoice.vendor) /\ invoice.amount # None
         THEN [invoice EXCEPT !.needs_review = FALSE]
         ELSE IF invoice.vendor_source = "auto" /\ invoice.amount_source = "auto"
         THEN [invoice EXCEPT !.needs_review = TRUE]
         ELSE invoice
    ELSE invoice

\* the attributes of the invoice when update_invoice commits
EditedInvoice(invoice, payload) ==
    ReviewAfterEdit(
        ResetAmount(ResetVendor(EditVendor(EditAmount(invoice, payload), payload),
                                payload), payload), payload)

\* db.commit() of one changed row: an UPDATE, with updated_at by its onupdate,
\* when an attribute has a new value, and nothing otherwise
CommitRow(old, new, now) ==
    IF Stored(new) = old THEN old ELSE [Stored(new) EXCEPT !.updated_at = now]

ResolvedInvoice_Confirms(invoice) ==
    [invoice EXCEPT !.needs_review = FALSE,
                    !.vendor_source = "manual",
                    !.amount_source = "manual"]

\* invoice.needs_review = False
ResolvedInvoice(invoice) == [invoice EXCEPT !.needs_review = FALSE]

\* the visible fields an update_invoice request addresses
Touched(payload) ==
    {f \in {"vendor"} : payload.vendor # Unset \/ Flag(payload.reset_vendor)}
        \cup {f \in {"amount"} : payload.amount # Unset \/ Flag(payload.reset_amount)}

---------------------------------------------------------------------------
(* The requests served *)

NoRequest ==
    [op |-> "none", id |-> 0, touched |-> {}, committed |-> FALSE, docs |-> <<>>,
     outcomes |-> <<>>, repeat |-> FALSE, response |-> None]

\* a pass over docs: whether it committed, the outcome of each document in
\* batch order, whether docs are those of the pass served just before, and
\* the SyncResponse (None when the pass raised)
SyncRequest(docs, committed, outcomes, response) ==
    [op |-> "sync", id |-> 0, touched |-> {}, committed |-> committed, docs |-> docs,
     outcomes |-> outcomes,
     repeat |-> (last.op = "sync" /\ last.committed /\ last.docs = docs),
     response |-> response]

EditRequest(op, id, touched) ==
    [op |-> op, id |-> id, touched |-> touched, committed |-> TRUE, docs |-> <<>>,
     outcomes |-> <<>>, repeat |-> FALSE, response |-> None]

\* a pass that ended in its loop, after the documents with these outcomes
AbortedRequest(docs, outcomes) ==
    [op |-> "sync aborted", id |-> 0, touched |-> {}, committed |-> FALSE,
     docs |-> docs, outcomes |-> outcomes, repeat |-> FALSE, response |-> None]

\* a pass that raised before its loop, at the id of the document at position
\* k of the batch
IdFailure(k) ==
    [op |-> "sync raised", id |-> k, touched |-> {}, committed |-> FALSE,
     docs |-> <<>>, outcomes |-> <<>>, repeat |-> FALSE, response |-> None]

\* a read of the ledger: limit is the limit asked for and response the answer
HistoryRequest(op, limit, response) ==
    [op |-> op, id |-> limit, touched |-> {}, committed |-> FALSE, docs |-> <<>>,
     outcomes |-> <<>>, repeat |-> FALSE, response |-> response]

\* a pass whose fetch raised in call
FetchFailure(call) ==
    [op |-> call, id |-> 0, touched |-> {}, committed |-> FALSE, docs |-> <<>>,
     outcomes |-> <<>>, repeat |-> FALSE, response |-> None]

\* a caller with no pass under way
Idle == [pc |-> "idle", docs |-> <<>>, L |-> StartOfLoop(<<>>, <<>>)]

Init ==
    /\ invoices = <<>>
    /\ sync_runs = <<>>
    /\ clock = 0
    /\ last = NoRequest
    /\ inflight = [c \in Callers |-> Idle]

CommitSync_Aggregates(docs, L, now) ==
    IF UniqueViolation(invoices, L.added)
    THEN /\ last' = SyncRequest(docs, FALSE, L.outcomes, None)
         /\ UNCHANGED <<invoices, sync_runs>>
    ELSE /\ invoices' = FlushInvoices(invoices, L, now)
         /\ sync_runs' = IF Len(docs) = 0 /\ sync_runs # <<>>
                         THEN [sync_runs EXCEPT ![Len(sync_runs)] = SyncRunRow(docs, L, now)]
                         ELSE Append(sync_runs, SyncRunRow(docs, L, now))
         /\ last' = SyncRequest(docs, TRUE, L.outcomes,
                                Some(SyncResponse(docs, L, now)))

CommitSync_KeepsLedger(docs, L, now) ==
    IF UniqueViolation(invoices, L.added)
    THEN /\ last' = SyncRequest(docs, FALSE, L.outcomes, None)
         /\ sync_runs' = Append(sync_runs, SyncRunRow(docs, L, now))
         /\ UNCHANGED invoices
    ELSE /\ invoices' = FlushInvoices(invoices, L, now)
         /\ sync_runs' = Append(sync_runs, SyncRunRow(docs, L, now))
         /\ last' = SyncRequest(docs, TRUE, L.outcomes,
                                Some(SyncResponse(docs, L, now)))

CommitSync_FailsOnErrors(docs, L, now) ==
    IF UniqueViolation(invoices, L.added) \/ L.error_count > 0
    THEN /\ last' = SyncRequest(docs, FALSE, L.outcomes, None)
         /\ UNCHANGED <<invoices, sync_runs>>
    ELSE /\ invoices' = FlushInvoices(invoices, L, now)
         /\ sync_runs' = Append(sync_runs, SyncRunRow(docs, L, now))
         /\ last' = SyncRequest(docs, TRUE, L.outcomes,
                                Some(SyncResponse(docs, L, now)))

\* db.add(sync_run); db.commit(); return SyncResponse(...): the pass ends with
\* the locals L at time now.  The flush fails as a whole on the unique
\* constraint: nothing is written and the exception reaches the caller.
CommitSync(docs, L, now) ==
    IF UniqueViolation(invoices, L.added)
    THEN /\ last' = SyncRequest(docs, FALSE, L.outcomes, None)
         /\ UNCHANGED <<invoices, sync_runs>>
    ELSE /\ invoices' = FlushInvoices(invoices, L, now)
         /\ sync_runs' = Append(sync_runs, SyncRunRow(docs, L, now))
         /\ last' = SyncRequest(docs, TRUE, L.outcomes,
                                Some(SyncResponse(docs, L, now)))

\* POST /sync or the scheduled job: sync_invoices over the fetched docs
Sync(docs) ==
    /\ Len(sync_runs) < MaxRuns
    /\ \E L \in {SyncLoop(StartOfLoop(docs, invoices), docs, clock)} :
            CommitSync(docs, L, clock)
    /\ UNCHANGED <<clock, inflight>>

\* sync_invoices over the documents as fetched: the ids are converted before
\* the loop, outside its try, and a ValueError there reaches the caller
\* with nothing written
SyncJson(json) ==
    IF NoIntegerIds(json) # {}
    THEN /\ Len(sync_runs) < MaxRuns
         /\ last' = IdFailure(CHOOSE k \in NoIntegerIds(json) :
                                \A j \in NoIntegerIds(json) : k <= j)
         /\ UNCHANGED <<invoices, sync_runs, clock, inflight>>
    ELSE Sync(WithIntegerIds(json))

LoopFree_Preempted == TRUE

\* both callers are coroutines of the one event loop, and sync_invoices
\* awaits nothing between the load of the rows and its return: while a pass
\* is there, the loop runs no other coroutine
LoopFree == \A c \in Callers : inflight[c].pc # "merging"

\* tag_id = await ...; docs = await client.get_project_documents(tag_id):
\* the pass of caller c suspends, and resumes with docs
Fetch(c, docs) ==
    /\ inflight[c].pc = "idle"
    /\ LoopFree
    /\ Len(sync_runs) + Cardinality({x \in Callers : inflight[x].pc # "idle"}) < MaxRuns
    /\ inflight' = [inflight EXCEPT ![c] = [Idle EXCEPT !.pc = "fetched", !.docs = docs]]
    /\ UNCHANGED <<invoices, sync_runs, clock, last>>

\* the pass loads the rows of its documents and runs its loop on them
Merge(c) ==
    /\ inflight[c].pc = "fetched"
    /\ LoopFree
    /\ inflight' = [inflight EXCEPT ![c] =
            [@ EXCEPT !.pc = "merging",
                      !.L = SyncLoop(StartOfLoop(inflight[c].docs, invoices),
                                     inflight[c].docs, clock)]]
    /\ UNCHANGED <<invoices, sync_runs, clock, last>>

\* db.add(sync_run); db.commit() of the pass of caller c
Commit(c) ==
    /\ inflight[c].pc = "merging"
    /\ CommitSync(inflight[c].docs, inflight[c].L, clock)
    /\ inflight' = [inflight EXCEPT ![c] = Idle]
    /\ UNCHANGED clock

\* a pass that took duration milliseconds
TimedSync(docs, duration) ==
    /\ Len(sync_runs) < MaxRuns
    /\ \E L \in {[SyncLoop(StartOfLoop(docs, invoices), docs, clock)
                        EXCEPT !.duration_ms = duration]} :
            CommitSync(docs, L, clock)
    /\ UNCHANGED <<clock, inflight>>

\* GET /sync/runs?limit=
SyncRunsQuery(limit) ==
    /\ last' = HistoryRequest("sync_runs", limit, Some(SyncRunsOut(sync_runs, limit)))
    /\ UNCHANGED <<invoices, sync_runs, clock, inflight>>

\* GET /sync/last
LastSync ==
    /\ last' = HistoryRequest("last_sync", 1, LastSyncOut(sync_runs))
    /\ UNCHANGED <<invoices, sync_runs, clock, inflight>>

\* the wall clock is set back
ClockSetBack ==
    /\ clock > 0
    /\ clock' = clock - 1
    /\ UNCHANGED <<invoices, sync_runs, last, inflight>>

\* sync_invoices ends inside its loop, after k documents, by something that
\* is no Exception: the session is closed with nothing flushed
AbortSync(docs, k) ==
    /\ Len(sync_runs) < MaxRuns
    /\ \E L \in {SyncLoop(StartOfLoop(docs, invoices), SubSeq(docs, 1, k), clock)} :
            last' = AbortedRequest(docs, L.outcomes)
    /\ UNCHANGED <<invoices, sync_runs, clock, inflight>>

FetchFails_Recorded(call) ==
    /\ Len(sync_runs) < MaxRuns
    /\ last' = FetchFailure(call)
    /\ sync_runs' = Append(sync_runs, SyncRunRow(<<>>, StartOfLoop(<<>>, invoices), clock))
    /\ UNCHANGED <<invoices, clock, inflight>>

\* get_tag_id_by_name or get_project_documents raises: sync_invoices ends
\* before its loop and the exception reaches the caller
FetchFails(call) ==
    /\ Len(sync_runs) < MaxRuns
    /\ last' = FetchFailure(call)
    /\ UNCHANGED <<invoices, sync_runs, clock, inflight>>

\* PUT /invoices/{invoice_id}
UpdateInvoice(invoice_id, payload) ==
    /\ invoice_id \in 1..Len(invoices)
    /\ invoices' = [invoices EXCEPT ![invoice_id] =
                        CommitRow(@, EditedInvoice(@, payload), clock)]
    /\ last' = EditRequest("update_invoice", invoice_id, Touched(payload))
    /\ UNCHANGED <<sync_runs, clock, inflight>>

\* PATCH /invoices/{invoice_id}/resolve
ResolveInvoiceReview(invoice_id) ==
    /\ invoice_id \in 1..Len(invoices)
    /\ invoices' = [invoices EXCEPT ![invoice_id] =
                        CommitRow(@, ResolvedInvoice(@), clock)]
    /\ last' = EditRequest("resolve_invoice_review", invoice_id, {})
    /\ UNCHANGED <<sync_runs, clock, inflight>>

\* time passes
Tick ==
    /\ clock < MaxClock
    /\ clock' = clock + 1
    /\ UNCHANGED <<invoices, sync_runs, last, inflight>>

SyncDetail == \E docs \in DetailBatches : Sync(docs)

UpdateDetail ==
    \E invoice_id \in 1..Len(invoices), payload \in DetailPayloads :
        UpdateInvoice(invoice_id, payload)

Resolve == \E invoice_id \in 1..Len(invoices) : ResolveInvoiceReview(invoice_id)

Next == SyncDetail \/ UpdateDetail \/ Resolve \/ Tick

Spec == Init /\ [][Next]_vars

SyncBatch == \E docs \in Batches : Sync(docs)

NextBatch == SyncBatch \/ Resolve \/ Tick

SpecBatch == Init /\ [][NextBatch]_vars

SyncFaults == \E docs \in FaultBatches : Sync(docs)

SyncAborted == \E docs \in FaultBatches : \E k \in 0..Len(docs) : AbortSync(docs, k)

SyncFetchFails == \E call \in FetchCalls : FetchFails(call)

UpdateFaults ==
    \E invoice_id \in 1..Len(invoices), payload \in FaultPayloads :
        UpdateInvoice(invoice_id, payload)

NextFaults ==
    SyncFaults \/ SyncAborted \/ SyncFetchFails \/ UpdateFaults \/ Resolve \/ Tick

SpecFaults == Init /\ [][NextFaults]_vars

UpdateEdits ==
    \E invoice_id \in 1..Len(invoices), payload \in EditPayloads :
        UpdateInvoice(invoice_id, payload)

NextEdits == SyncDetail \/ UpdateEdits \/ Tick

SpecEdits == Init /\ [][NextEdits]_vars

SyncHistory ==
    \E docs \in HistoryBatches, duration \in Durations : TimedSync(docs, duration)

ReadRuns == \E limit \in Limits : SyncRunsQuery(limit)

NextHistory == SyncHistory \/ ReadRuns \/ LastSync \/ Tick \/ ClockSetBack

SpecHistory == Init /\ [][NextHistory]_vars

SyncFetched == \E json \in JsonBatches : SyncJson(json)

NextJson == SyncFetched \/ Tick

SpecJson == Init /\ [][NextJson]_vars

SyncCreated == \E docs \in CreatedBatches : Sync(docs)

NextCreated == SyncCreated \/ Tick

SpecCreated == Init /\ [][NextCreated]_vars

SyncErrors == \E docs \in ErrorBatches : Sync(docs)

NextErrors == SyncErrors \/ Tick

SpecErrors == Init /\ [][NextErrors]_vars

\* the two callers of sync_invoices on the event loop, and the editor, whose
\* requests are served by the threads of the pool at any moment
FetchOverlap == \E c \in Callers, docs \in OverlapBatches : Fetch(c, docs)

MergeOverlap == \E c \in Callers : Merge(c)

CommitOverlap == \E c \in Callers : Commit(c)

NextOverlap == FetchOverlap \/ MergeOverlap \/ CommitOverlap \/ UpdateFaults \/ Tick

SpecOverlap == Init /\ [][NextOverlap]_vars

---------------------------------------------------------------------------
(* What the claims speak of *)

HasRow(table, d) == \E r \in 1..Len(table) : table[r].paperless_doc_id = d

RowOf(table, d) == CHOOSE r \in 1..Len(table) : table[r].paperless_doc_id = d

\* this step is a pass of sync_invoices that committed
SyncCommitted ==
    /\ Len(sync_runs') = Len(sync_runs) + 1
    /\ last'.op = "sync"
    /\ last'.committed

\* the documents of the pass just committed: the items that carry an id, whose
\* extraction returned, and whose invoice existed when the pass began
UpdatePathItems ==
    {last'.docs[i] : i \in {j \in 1..Len(last'.docs) :
        /\ last'.docs[j].doc.id # None
        /\ last'.docs[j].extract.error = None
        /\ HasRow(invoices, last'.docs[j].doc.id[1])}}

\* ... and whose id matched no stored invoice
InsertPathItems ==
    {last'.docs[i] : i \in {j \in 1..Len(last'.docs) :
        /\ last'.docs[j].doc.id # None
        /\ last'.docs[j].extract.error = None
        /\ ~HasRow(invoices, last'.docs[j].doc.id[1])}}

\* the invoice of an item before the pass and after it
Before(item) == invoices[RowOf(invoices, item.doc.id[1])]

After(item) == invoices'[RowOf(invoices, item.doc.id[1])]

\* the state after a committed pass over the one document 1 that found its invoice
AfterPassOverInvoice ==
    /\ last.op = "sync"
    /\ last.committed
    /\ Len(last.docs) = 1
    /\ last.outcomes \in {<<"updated">>, <<"skipped">>}
    /\ Len(invoices) = 1

---------------------------------------------------------------------------
\* C1: running sync_invoices twice in a row over the same documents, each with
\* an id and the same extractor output, with no request in between, reports
\* updated_invoices = 0 and skipped_invoices = checked_docs the second time.
C1_Idempotence ==
    (/\ last.op = "sync"
     /\ last.committed
     /\ last.repeat
     /\ \A i \in 1..Len(last.docs) :
            last.docs[i].doc.id # None /\ last.docs[i].extract.error = None)
    => /\ last.response[1].updated_invoices = 0
       /\ last.response[1].skipped_invoices = last.response[1].checked_docs

---------------------------------------------------------------------------
\* C2: provenance freeze.  When a pass processes without error a document whose
\* invoice has F_source = manual (F vendor or amount) and whose extracted F
\* differs from the stored F, then after the pass F is unchanged, F_auto is the
\* extracted value and F_source is still manual; the other field, if its source
\* is auto, takes the extracted value.
C2_Step ==
    SyncCommitted =>
        \A item \in UpdatePathItems :
            LET ext == item.extract.fields
                pre == Before(item)
                post == After(item)
            IN /\ (pre.vendor_source = "manual" /\ ext.vendor # pre.vendor) =>
                    /\ post.vendor = pre.vendor
                    /\ post.vendor_auto = ext.vendor
                    /\ post.vendor_source = "manual"
                    /\ (pre.amount_source = "auto" => post.amount = ext.amount)
               /\ (pre.amount_source = "manual" /\ ext.amount # pre.amount) =>
                    /\ post.amount = pre.amount
                    /\ post.amount_auto = ext.amount
                    /\ post.amount_source = "manual"
                    /\ (pre.vendor_source = "auto" => post.vendor = ext.vendor)

C2_ProvenanceFreeze == [][C2_Step]_vars

\* a pass has updated an invoice whose manual vendor differs from the extracted
\* one, while its amount follows the extractor
C2_Witness ==
    /\ AfterPassOverInvoice
    /\ last.outcomes = <<"updated">>
    /\ invoices[1].vendor_source = "manual"
    /\ invoices[1].vendor = Some("Manuell GmbH")
    /\ invoices[1].vendor_auto = last.docs[1].extract.fields.vendor
    /\ invoices[1].vendor_auto # invoices[1].vendor
    /\ invoices[1].amount_source = "auto"
    /\ invoices[1].amount = Some(12345)

---------------------------------------------------------------------------
\* C3: a user correction survives re-extraction.  Once F_source = manual, no
\* step other than an update_invoice request that addresses F of that invoice
\* (an edit or a reset of F) changes F or F_source: every pass, with whatever
\* extractor output, leaves the user's value and the manual source in place.
EditOf(r, field) ==
    last'.op = "update_invoice" /\ last'.id = r /\ field \in last'.touched

C3_Step ==
    \A r \in 1..Len(invoices) :
        /\ (invoices[r].vendor_source = "manual" /\ ~EditOf(r, "vendor")) =>
                /\ invoices'[r].vendor = invoices[r].vendor
                /\ invoices'[r].vendor_source = "manual"
        /\ (invoices[r].amount_source = "manual" /\ ~EditOf(r, "amount")) =>
                /\ invoices'[r].amount = invoices[r].amount
                /\ invoices'[r].amount_source = "manual"

C3_CorrectionSurvives == [][C3_Step]_vars

\* after the edit a pass re-extracted other values for both fields, and the
\* invoice still shows the user's values
C3_Witness ==
    /\ AfterPassOverInvoice
    /\ last.outcomes = <<"updated">>
    /\ invoices[1].vendor_source = "manual"
    /\ invoices[1].amount_source = "manual"
    /\ invoices[1].vendor = Some("Manuell GmbH")
    /\ invoices[1].amount = Some(33333)
    /\ invoices[1].vendor_auto = None
    /\ invoices[1].amount_auto = Some(12345)

---------------------------------------------------------------------------
\* C4: auto fields mirror the shadow value.  After a pass processes without
\* error a document whose invoice has F_source = auto, F is the extractor's
\* value of this pass and equals F_auto, also when that value is None.
C4_Step ==
    SyncCommitted =>
        \A item \in UpdatePathItems :
            LET ext == item.extract.fields
                pre == Before(item)
                post == After(item)
            IN /\ pre.vendor_source = "auto" =>
                    post.vendor = ext.vendor /\ post.vendor = post.vendor_auto
               /\ pre.amount_source = "auto" =>
                    post.amount = ext.amount /\ post.amount = post.amount_auto

C4_AutoMirrorsShadow == [][C4_Step]_vars

\* a pass whose extractor found an amount and no vendor has updated an invoice
\* with both sources auto: the visible vendor is None, as vendor_auto is
C4_Witness ==
    /\ AfterPassOverInvoice
    /\ last.outcomes = <<"updated">>
    /\ last.docs[1].extract.fields.vendor = None
    /\ invoices[1].vendor_source = "auto"
    /\ invoices[1].vendor = None
    /\ invoices[1].vendor_auto = None
    /\ invoices[1].amount_source = "auto"
    /\ invoices[1].amount = Some(12345)

---------------------------------------------------------------------------
\* C5: review suppression.  After a pass processes without error a document
\* whose invoice has vendor_source = manual or amount_source = manual, the
\* invoice has needs_review = FALSE, whatever the extractor signalled and
\* whatever was stored before.
C5_Step ==
    SyncCommitted =>
        \A item \in UpdatePathItems :
            (Before(item).vendor_source = "manual" \/ Before(item).amount_source = "manual")
                => After(item).needs_review = FALSE

C5_ReviewSuppression == [][C5_Step]_vars

\* the extractor asked for a review of an invoice with a manual amount, and the
\* pass stored needs_review = FALSE
C5_Witness ==
    /\ AfterPassOverInvoice
    /\ last.docs[1].extract.fields.needs_review = Some(TRUE)
    /\ invoices[1].amount_source = "manual"
    /\ invoices[1].vendor_source = "auto"
    /\ invoices[1].needs_review = FALSE

---------------------------------------------------------------------------
\* C6: for an invoice whose sources are both auto, after a pass processes its
\* document without error needs_review is the extractor's signal of this pass,
\* whatever was stored before, and TRUE when the extractor omits the signal.
C6_Step ==
    SyncCommitted =>
        \A item \in UpdatePathItems :
            (Before(item).vendor_source = "auto" /\ Before(item).amount_source = "auto")
                => After(item).needs_review =
                        IF item.extract.fields.needs_review = None
                        THEN TRUE
                        ELSE item.extract.fields.needs_review[1]

C6_ReviewFollowsSignal == [][C6_Step]_vars

\* a second pass, with another extraction than the one that inserted the
\* invoice, signalled FALSE: with both sources auto the invoice is not flagged
C6_Witness ==
    /\ AfterPassOverInvoice
    /\ last.outcomes = <<"updated">>
    /\ last.repeat = FALSE
    /\ last.docs[1].extract.fields.needs_review = Some(FALSE)
    /\ invoices[1].vendor_source = "auto"
    /\ invoices[1].amount_source = "auto"
    /\ invoices[1].needs_review = FALSE
    /\ Len(sync_runs) = 2
    /\ sync_runs[1].new_invoices = 1

---------------------------------------------------------------------------
\* C7 as claimed: resolve_invoice_review sets needs_review = FALSE and changes
\* no other field; right after it the flag goes back to TRUE only by a pass
\* that processes the invoice's document with both sources auto and an
\* extractor signal of TRUE.
C7_ClaimedStep ==
    /\ last'.op = "resolve_invoice_review" =>
            invoices' = [invoices EXCEPT ![last'.id].needs_review = FALSE]
    /\ \A r \in 1..Len(invoices) :
            (/\ last.op = "resolve_invoice_review"
             /\ last.id = r
             /\ invoices[r].needs_review = FALSE
             /\ invoices'[r].needs_review = TRUE)
            => /\ SyncCommitted
               /\ \E item \in UpdatePathItems :
                    /\ item.doc.id[1] = invoices[r].paperless_doc_id
                    /\ invoices[r].vendor_source = "auto"
                    /\ invoices[r].amount_source = "auto"
                    /\ item.extract.fields.needs_review = Some(TRUE)

C7_Claimed == [][C7_ClaimedStep]_vars

\* C7 as amended: resolve_invoice_review sets needs_review = FALSE and changes
\* no other field but updated_at; a flag that is FALSE goes to TRUE only by a
\* pass that processes the invoice's document with both sources auto and an
\* extractor signal that is TRUE or omitted, or by an update_invoice request
\* for the invoice that carries needs_review = true, or that edits or resets a
\* field and leaves the vendor empty or the amount None with both sources auto.
SetsReview(r, payload) ==
    /\ UpdateInvoice(r, payload)
    /\ \/ payload.needs_review = Sent(Some(TRUE))
       \/ /\ payload.needs_review = Unset
          /\ Touched(payload) # {}
          /\ invoices'[r].vendor_source = "auto"
          /\ invoices'[r].amount_source = "auto"
          /\ ~(Truthy(invoices'[r].vendor) /\ invoices'[r].amount # None)

C7_Step ==
    /\ last'.op = "resolve_invoice_review" =>
            /\ Len(invoices') = Len(invoices)
            /\ \A r \in 1..Len(invoices) :
                    IF r = last'.id
                    THEN /\ invoices'[r].needs_review = FALSE
                         /\ \A key \in DOMAIN invoices[r] \ {"needs_review", "updated_at"} :
                                invoices'[r][key] = invoices[r][key]
                    ELSE invoices'[r] = invoices[r]
    /\ \A r \in 1..Len(invoices) :
            (invoices[r].needs_review = FALSE /\ invoices'[r].needs_review = TRUE)
            => \/ /\ SyncCommitted
                  /\ \E item \in UpdatePathItems :
                        /\ item.doc.id[1] = invoices[r].paperless_doc_id
                        /\ invoices[r].vendor_source = "auto"
                        /\ invoices[r].amount_source = "auto"
                        /\ item.extract.fields.needs_review \in {None, Some(TRUE)}
               \/ \E payload \in DetailPayloads : SetsReview(r, payload)

C7_ResolveUntilSuperseded == [][C7_Step]_vars

\* a flagged invoice was resolved some time after the pass that stored it:
\* the flag is FALSE and updated_at is the time of the request
C7_Witness ==
    /\ last.op = "resolve_invoice_review"
    /\ invoices[last.id].needs_review = FALSE
    /\ invoices[last.id].vendor_source = "auto"
    /\ invoices[last.id].amount_source = "auto"
    /\ invoices[last.id].extracted_at < clock
    /\ invoices[last.id].updated_at = clock

---------------------------------------------------------------------------
\* C8: insert path.  When a pass processes a document whose id matches no
\* stored invoice, exactly one invoice exists for that id afterwards, with
\* vendor = vendor_auto = the extracted vendor, amount = amount_auto = the
\* extracted amount, both sources auto and needs_review the extractor's signal
\* (TRUE when omitted); the document counts in new_invoices and nowhere else.
InsertPathIndices ==
    {j \in 1..Len(last'.docs) : last'.docs[j] \in InsertPathItems}

C8_Step ==
    SyncCommitted =>
        /\ \A item \in InsertPathItems :
            LET ext == item.extract.fields
                rows == {r \in 1..Len(invoices') :
                            invoices'[r].paperless_doc_id = item.doc.id[1]}
            IN /\ Cardinality(rows) = 1
               /\ \A r \in rows :
                    /\ invoices'[r].vendor = ext.vendor
                    /\ invoices'[r].vendor_auto = ext.vendor
                    /\ invoices'[r].amount = ext.amount
                    /\ invoices'[r].amount_auto = ext.amount
                    /\ invoices'[r].vendor_source = "auto"
                    /\ invoices'[r].amount_source = "auto"
                    /\ invoices'[r].needs_review =
                            IF ext.needs_review = None THEN TRUE ELSE ext.needs_review[1]
        /\ last'.response[1].new_invoices = Cardinality(InsertPathIndices)
        /\ Len(invoices') = Len(invoices) + Cardinality(InsertPathIndices)
        /\ (Len(last'.docs) = 1 /\ InsertPathItems # {}) =>
                /\ last'.response[1].updated_invoices = 0
                /\ last'.response[1].skipped_invoices = 0
                /\ last'.response[1].errors.count = 0

C8_InsertPath == [][C8_Step]_vars

\* a pass has inserted the invoice of a document for which the extractor gave
\* a vendor and an amount and omitted its signal
C8_Witness ==
    /\ last.op = "sync"
    /\ last.committed
    /\ last.outcomes = <<"inserted">>
    /\ last.docs[1].extract.fields.needs_review = None
    /\ last.response[1].new_invoices = 1
    /\ Len(invoices) = 1
    /\ invoices[1].vendor = Some("Auto GmbH")
    /\ invoices[1].amount = Some(12345)
    /\ invoices[1].needs_review = TRUE

---------------------------------------------------------------------------
\* C9: counter identity.  The counters every committed pass records satisfy
\* checked_docs = new_invoices + updated_invoices + skipped_invoices +
\* error_count, also for batches with documents lacking an id and documents
\* whose processing raises.
C9_CounterIdentity ==
    \A n \in 1..Len(sync_runs) :
        sync_runs[n].checked_docs =
            sync_runs[n].new_invoices + sync_runs[n].updated_invoices
                + sync_runs[n].skipped_invoices + sync_runs[n].error_count

---------------------------------------------------------------------------
\* C10: a document without an id is skipped silently: it does not count in
\* checked_docs nor in new, updated, skipped or error_count, it sets no error
\* text, and it creates or changes no invoice.
WithId(docs) == SelectSeq(docs, LAMBDA item : item.doc.id # None)

C10_Step ==
    SyncCommitted =>
        LET run == sync_runs'[Len(sync_runs')]
        IN /\ run.checked_docs = Len(WithId(last'.docs))
           /\ run.new_invoices + run.updated_invoices + run.skipped_invoices
                + run.error_count <= Len(WithId(last'.docs))
           /\ WithId(last'.docs) = <<>> =>
                /\ run.last_error_text = None
                /\ invoices' = invoices

C10_NoIdSkippedSilently == [][C10_Step]_vars

---------------------------------------------------------------------------
\* C11: error isolation.  When the extractor raises for documents of a batch,
\* the pass counts each of them in error_count and in checked_docs, goes on
\* with the remaining documents, and every other document has the outcome and
\* the invoice it has in a pass over the batch without the failing documents.
Raised(item) == item.doc.id # None /\ item.extract.error # None

WithoutRaised(docs) == SelectSeq(docs, LAMBDA item : ~Raised(item))

\* the pass over the documents that do not raise, from the same store
PassWithoutRaised ==
    SyncLoop(StartOfLoop(WithoutRaised(last'.docs), invoices),
             WithoutRaised(last'.docs), clock)

C11_Step ==
    SyncCommitted =>
        LET docs  == last'.docs
            rest  == WithoutRaised(docs)
            alone == PassWithoutRaised
            run   == sync_runs'[Len(sync_runs')]
        IN /\ run.error_count = Len(docs) - Len(rest)
           /\ run.checked_docs = Len(rest) + run.error_count
           /\ Len(last'.outcomes) = Len(docs)
           /\ \A i \in 1..Len(docs) : Raised(docs[i]) <=> last'.outcomes[i] = "error"
           /\ SelectSeq(last'.outcomes, LAMBDA o : o # "error") = alone.outcomes
           /\ run.new_invoices = alone.inserted
           /\ run.updated_invoices = alone.updated
           /\ run.skipped_invoices = alone.skipped
           /\ invoices' = FlushInvoices(invoices, alone, clock)

C11_ErrorIsolation == [][C11_Step]_vars

\* a pass over three documents whose second raised: the first was updated and
\* the third inserted, and the ledger shows checked_docs = 3, error_count = 1
C11_Witness ==
    /\ last.op = "sync"
    /\ last.committed
    /\ last.outcomes = <<"updated", "error", "inserted">>
    /\ sync_runs[Len(sync_runs)].checked_docs = 3
    /\ sync_runs[Len(sync_runs)].error_count = 1
    /\ Len(invoices) = 2

---------------------------------------------------------------------------
\* C12: when the processing of a document raises, the stored invoice with its
\* id, if there is one, has every field unchanged after the pass commits, and
\* no invoice is created for that id.
C12_Step ==
    SyncCommitted =>
        \A i \in 1..Len(last'.docs) :
            Raised(last'.docs[i]) =>
                LET d == last'.docs[i].doc.id[1]
                IN IF HasRow(invoices, d)
                   THEN invoices'[RowOf(invoices, d)] = invoices[RowOf(invoices, d)]
                   ELSE ~HasRow(invoices', d)

C12_FailedDocumentUntouched == [][C12_Step]_vars

\* a later pass updated the invoice of document 1 and raised on document 2,
\* whose invoice still carries the times of the pass that inserted it; it
\* raised on document 3 as well, which has no invoice
C12_Witness ==
    /\ last.op = "sync"
    /\ last.committed
    /\ last.outcomes = <<"updated", "error", "error">>
    /\ Len(invoices) = 2
    /\ HasRow(invoices, 2)
    /\ ~HasRow(invoices, 3)
    /\ invoices[RowOf(invoices, 2)].updated_at < clock
    /\ invoices[RowOf(invoices, 1)].updated_at = clock

---------------------------------------------------------------------------
\* C13: first-error capture.  last_error_text of the SyncRun, and
\* errors.first_error of the result, is the message of the first document in
\* batch order whose processing raised; later errors do not replace it, and it
\* is None when error_count = 0.
RaisedIndices(docs) == {i \in 1..Len(docs) : Raised(docs[i])}

C13_Step ==
    SyncCommitted =>
        LET docs   == last'.docs
            raised == RaisedIndices(docs)
            run    == sync_runs'[Len(sync_runs')]
            result == last'.response[1]
        IN /\ result.errors.first_error = run.last_error_text
           /\ result.errors.count = run.error_count
           /\ run.error_count = 0 => run.last_error_text = None
           /\ raised = {} => run.last_error_text = None
           /\ raised # {} =>
                LET first == CHOOSE i \in raised : \A j \in raised : i <= j
                IN run.last_error_text = docs[first].extract.error

C13_FirstErrorCapture == [][C13_Step]_vars

\* two documents of one pass raised, each with its own message, and the ledger
\* keeps the message of the first
C13_Witness ==
    /\ last.op = "sync"
    /\ last.committed
    /\ last.outcomes = <<"inserted", "error", "error">>
    /\ last.docs[2].extract.error = Some("extraction failed")
    /\ last.docs[3].extract.error = Some("amount unreadable")
    /\ sync_runs[Len(sync_runs)].error_count = 2
    /\ sync_runs[Len(sync_runs)].last_error_text = Some("extraction failed")
    /\ last.response[1].errors.first_error = Some("extraction failed")

---------------------------------------------------------------------------
\* C16: a pass that completes with errors is a committed pass.  For a batch in
\* which some or all documents raise, sync_invoices returns its result, commits
\* what it did for the documents that did not raise, and records exactly one
\* SyncRun, whose error_count is the number of documents that raised.
C16_Step ==
    (last'.op = "sync" /\ clock' = clock /\ RaisedIndices(last'.docs) # {}) =>
        LET docs == last'.docs
            run  == sync_runs'[Len(sync_runs')]
        IN /\ last'.committed
           /\ last'.response # None
           /\ Len(sync_runs') = Len(sync_runs) + 1
           /\ SubSeq(sync_runs', 1, Len(sync_runs)) = sync_runs
           /\ run.error_count = Cardinality(RaisedIndices(docs))
           /\ last'.response[1].errors.count = Cardinality(RaisedIndices(docs))
           /\ \A i \in 1..Len(docs) :
                ~Raised(docs[i]) =>
                    /\ HasRow(invoices', docs[i].doc.id[1])
                    /\ LET row == invoices'[RowOf(invoices', docs[i].doc.id[1])]
                       IN /\ row.vendor_auto = docs[i].extract.fields.vendor
                          /\ row.amount_auto = docs[i].extract.fields.amount
                          /\ last'.outcomes[i] \in {"inserted", "updated"} =>
                                row.extracted_at = clock

C16_CompletedWithErrors == [][C16_Step]_vars

\* every document of a pass raised: the pass returned its result and the
\* ledger has its row, with error_count = 2 and nothing else counted
C16_Witness ==
    /\ last.op = "sync"
    /\ last.committed
    /\ last.outcomes = <<"error", "error">>
    /\ last.response # None
    /\ Len(sync_runs) = 1
    /\ sync_runs[1].error_count = 2
    /\ sync_runs[1].new_invoices = 0
    /\ invoices = <<>>

---------------------------------------------------------------------------
\* C14: all-or-nothing persistence.  When a pass ends without its commit
\* succeeding, because it was aborted in its loop or because the commit raised,
\* the store is as it was before the pass: no invoice inserted or changed, no
\* SyncRun row; the caller gets the exception and no result.
C14_Step ==
    (last'.op \in {"sync", "sync aborted"} /\ ~last'.committed /\ clock' = clock) =>
        /\ invoices' = invoices
        /\ sync_runs' = sync_runs
        /\ last'.response = None

C14_AllOrNothing == [][C14_Step]_vars

\* the commit of a pass raised: the pass had changed the invoice of document 2
\* and added document 1 twice, and the store still is the one of the first pass
C14_Witness ==
    /\ last.op = "sync"
    /\ ~last.committed
    /\ last.outcomes = <<"updated", "inserted", "inserted">>
    /\ last.response = None
    /\ Len(sync_runs) = 1
    /\ Len(invoices) = 1
    /\ invoices[1].paperless_doc_id = 2
    /\ invoices[1].extracted_at < clock

---------------------------------------------------------------------------
\* C15: upstream fetch failure.  When get_tag_id_by_name or
\* get_project_documents raises, the pass ends before its loop: no document is
\* processed, no invoice is created or changed, no SyncRun row is recorded and
\* the caller gets the exception.
C15_Step ==
    (last'.op \in FetchCalls /\ clock' = clock) =>
        /\ invoices' = invoices
        /\ sync_runs' = sync_runs
        /\ last'.docs = <<>>
        /\ last'.outcomes = <<>>
        /\ last'.response = None

C15_FetchFailure == [][C15_Step]_vars

\* the fetch of a pass raised in get_project_documents when the store held an
\* invoice and a SyncRun, and it still holds just these
C15_Witness ==
    /\ last.op = "get_project_documents"
    /\ Len(invoices) = 1
    /\ Len(sync_runs) = 1

---------------------------------------------------------------------------
\* C17: uniqueness of the reconciliation key.  In every committed state at
\* most one invoice exists per paperless_doc_id, also after passes whose batch
\* carried the same id more than once.
C17_UniqueKey ==
    \A r1, r2 \in 1..Len(invoices) :
        invoices[r1].paperless_doc_id = invoices[r2].paperless_doc_id => r1 = r2

\* a pass over a batch that carried document 1 twice has committed: the second
\* entry found the invoice as the first had left it
C17_Witness ==
    /\ last.op = "sync"
    /\ last.committed
    /\ Len(last.docs) = 2
    /\ last.docs[1].doc.id = last.docs[2].doc.id
    /\ last.outcomes = <<"updated", "skipped">>
    /\ Len(invoices) = 1

---------------------------------------------------------------------------
\* C18: reset recovers the shadow value.  update_invoice with reset_vendor
\* (reset_amount) sets vendor_source (amount_source) to auto and makes the
\* visible field equal to the stored vendor_auto (amount_auto), for every
\* stored shadow value, None included.
C18_Step ==
    \A r \in 1..Len(invoices) : \A payload \in DetailPayloads :
        UpdateInvoice(r, payload) =>
            /\ Flag(payload.reset_vendor) =>
                    /\ invoices'[r].vendor_source = "auto"
                    /\ invoices'[r].vendor = invoices[r].vendor_auto
                    /\ invoices'[r].vendor_auto = invoices[r].vendor_auto
            /\ Flag(payload.reset_amount) =>
                    /\ invoices'[r].amount_source = "auto"
                    /\ invoices'[r].amount = invoices[r].amount_auto
                    /\ invoices'[r].amount_auto = invoices[r].amount_auto

C18_ResetRecoversShadow == [][C18_Step]_vars

---------------------------------------------------------------------------
\* C19: manual edit.  update_invoice with a value for F (vendor or amount)
\* writes the value into F and sets F_source to manual whenever the value
\* differs from the current one, also when the new vendor is None; when it
\* equals the current one F_source stays as it was; vendor_auto and
\* amount_auto are not changed by an edit.
C19_Step ==
    \A r \in 1..Len(invoices) : \A payload \in EditPayloads :
        (/\ UpdateInvoice(r, payload)
         /\ ~Flag(payload.reset_vendor)
         /\ ~Flag(payload.reset_amount))
        => /\ payload.vendor # Unset =>
                /\ invoices'[r].vendor = payload.vendor[1]
                /\ invoices'[r].vendor_source =
                        IF payload.vendor[1] # invoices[r].vendor
                        THEN "manual"
                        ELSE invoices[r].vendor_source
           /\ (payload.amount # Unset /\ payload.amount[1] # None) =>
                /\ invoices'[r].amount = payload.amount[1]
                /\ invoices'[r].amount_source =
                        IF payload.amount[1] # invoices[r].amount
                        THEN "manual"
                        ELSE invoices[r].amount_source
           /\ invoices'[r].vendor_auto = invoices[r].vendor_auto
           /\ invoices'[r].amount_auto = invoices[r].amount_auto

C19_ManualEdit == [][C19_Step]_vars

---------------------------------------------------------------------------
\* C20: needs_review after an edit.  After an update_invoice request that
\* edits or resets a field, an invoice with vendor_source = manual or
\* amount_source = manual has needs_review = FALSE, whatever the other field
\* holds and whatever needs_review the request carries.
C20_Step ==
    \A r \in 1..Len(invoices) : \A payload \in EditPayloads :
        (UpdateInvoice(r, payload) /\ Touched(payload) # {}) =>
            ((invoices'[r].vendor_source = "manual" \/ invoices'[r].amount_source = "manual")
                => invoices'[r].needs_review = FALSE)

C20_ReviewAfterEdit == [][C20_Step]_vars

---------------------------------------------------------------------------
\* C21: append-only run ledger.  Every pass that commits adds exactly one
\* SyncRun row, also for an empty batch; no pass, edit, reset or resolve
\* changes or deletes a row written earlier; a step that is not a committed
\* pass leaves the ledger as it is.
C21_Step ==
    /\ Len(sync_runs') >= Len(sync_runs)
    /\ SubSeq(sync_runs', 1, Len(sync_runs)) = sync_runs
    /\ IF last'.op = "sync" /\ last'.committed /\ clock' = clock
       THEN Len(sync_runs') = Len(sync_runs) + 1
       ELSE sync_runs' = sync_runs

C21_AppendOnlyLedger == [][C21_Step]_vars

\* a pass over an empty batch committed after a pass that inserted an invoice,
\* at a later time: the ledger has both rows, the first as it was written
C21_Witness ==
    /\ last.op = "sync"
    /\ last.committed
    /\ last.docs = <<>>
    /\ Len(sync_runs) = 2
    /\ sync_runs[1].new_invoices = 1
    /\ sync_runs[1].finished_at < sync_runs[2].finished_at
    /\ sync_runs[2].checked_docs = 0

---------------------------------------------------------------------------
\* C22: run history order.  sync_runs(limit) returns min(limit, number of
\* stored runs) runs, those with the latest finished_at, by finished_at
\* descending and, for equal finished_at, the higher id first; last_sync
\* returns the first run of that order, or nothing when the ledger is empty.
C22_Precedes(a, b) ==
    \/ a.finished_at > b.finished_at
    \/ a.finished_at = b.finished_at /\ a.id > b.id

C22_Stored(out) ==
    /\ out.id \in 1..Len(sync_runs)
    /\ out = sync_run_to_out(sync_runs[out.id], out.id)

C22_RunHistoryOrder ==
    /\ last.op = "sync_runs" =>
        LET rows == last.response[1]
            n    == Len(sync_runs)
            returned == {rows[i].id : i \in 1..Len(rows)}
        IN /\ Len(rows) = IF last.id < n THEN last.id ELSE n
           /\ \A i \in 1..Len(rows) : C22_Stored(rows[i])
           /\ \A i, j \in 1..Len(rows) : i < j => C22_Precedes(rows[i], rows[j])
           /\ \A i \in 1..Len(rows) : \A k \in (1..n) \ returned :
                C22_Precedes(rows[i], sync_run_to_out(sync_runs[k], k))
    /\ last.op = "last_sync" =>
        IF sync_runs = <<>>
        THEN last.response = None
        ELSE /\ last.response # None
             /\ C22_Stored(last.response[1])
             /\ \A k \in (1..Len(sync_runs)) \ {last.response[1].id} :
                    C22_Precedes(last.response[1], sync_run_to_out(sync_runs[k], k))

\* sync_runs(limit = 1) over a ledger of two runs returned the first, which
\* finished later than the second
C22_Witness ==
    /\ last.op = "sync_runs"
    /\ last.id = 1
    /\ Len(sync_runs) = 2
    /\ sync_runs[1].finished_at > sync_runs[2].finished_at
    /\ Len(last.response[1]) = 1
    /\ last.response[1][1].id = 1

---------------------------------------------------------------------------
\* C23: the answer of a committed pass carries the counters, the first error
\* and the duration of the SyncRun row the pass appended, and last_sync called
\* right after the pass returns these same values (C23_Claimed).  What the
\* code keeps is C23_ResponseMatchesRow: last_sync returns them when no
\* stored run has a later finished_at than the pass.
C23_Values(r) ==
    <<r.finished_at, r.duration_ms, r.checked_docs, r.new_invoices,
      r.updated_invoices, r.skipped_invoices, r.error_count>>

C23_OutValues(out) ==
    <<out.finished_at, out.duration_ms, out.checked_docs, out.new_invoices,
      out.updated_invoices, out.skipped_invoices, out.errors.count>>

C23_ResponseIsRow ==
    SyncCommitted =>
        LET row == sync_runs'[Len(sync_runs')]
        IN /\ C23_OutValues(last'.response[1]) = C23_Values(row)
           /\ last'.response[1].errors.first_error = row.last_error_text

C23_RightAfter == last.op = "sync" /\ last.committed /\ last'.op = "last_sync"

C23_SameValues ==
    /\ last'.response # None
    /\ C23_OutValues(last'.response[1]) = C23_OutValues(last.response[1])
    /\ last'.response[1].errors = last.response[1].errors

C23_Latest ==
    \A k \in 1..Len(sync_runs) :
        sync_runs[k].finished_at <= last.response[1].finished_at

\* the claim as written: last_sync right after the pass always returns the
\* values of the pass
C23_ClaimedStep ==
    /\ C23_ResponseIsRow
    /\ C23_RightAfter => C23_SameValues

C23_Claimed == [][C23_ClaimedStep]_vars

C23_Step ==
    /\ C23_ResponseIsRow
    /\ (C23_RightAfter /\ C23_Latest) => C23_SameValues

C23_ResponseMatchesRow == [][C23_Step]_vars

\* last_sync returned the second run, a pass of two seconds over one document
C23_Witness ==
    /\ last.op = "last_sync"
    /\ Len(sync_runs) = 2
    /\ last.response # None
    /\ last.response[1].id = 2
    /\ last.response[1].duration_ms = 2000
    /\ last.response[1].checked_docs = 1
    /\ last.response[1].new_invoices = 1

---------------------------------------------------------------------------
\* C24: outcome classification on the update path.  A document that matches
\* an existing invoice is counted as updated exactly when some attribute the
\* pass derives for it differs from the attribute of the row, and as skipped
\* exactly when none differs; a skipped document leaves every attribute of
\* its row as it was.
C24_Differs(item) ==
    LET derived == UpdateData(Before(item), item.doc, item.extract.fields, clock)
    IN \E key \in DOMAIN derived : Before(item)[key] # derived[key]

C24_Step ==
    SyncCommitted =>
        \A i \in 1..Len(last'.docs) :
            last'.docs[i] \in UpdatePathItems =>
                /\ last'.outcomes[i] \in {"updated", "skipped"}
                /\ last'.outcomes[i] = "updated" <=> C24_Differs(last'.docs[i])
                /\ last'.outcomes[i] = "skipped" => After(last'.docs[i]) = Before(last'.docs[i])

C24_OutcomeClassification == [][C24_Step]_vars

\* a pass skipped document 1, whose invoice it found as derived, and inserted
\* document 2
C24_Witness ==
    /\ last.op = "sync"
    /\ last.committed
    /\ Len(last.docs) = 2
    /\ last.outcomes = <<"skipped", "inserted">>
    /\ last.response[1].skipped_invoices = 1
    /\ last.response[1].updated_invoices = 0
    /\ Len(invoices) = 2

---------------------------------------------------------------------------
\* C25: only fetch failures and commit failures abort a run.  A fault confined
\* to one document (the extractor raising, an amount that is no decimal, an id
\* that is no integer) is counted as an error of that document: no pass raises
\* for it, and a pass that commits counts as many errors as documents raised
\* and gives every other document that carries an id an outcome.
C25_Step ==
    /\ (last' # last /\ last'.op = "sync raised") => FALSE
    /\ SyncCommitted =>
        /\ last'.response[1].errors.count = Cardinality(RaisedIndices(last'.docs))
        /\ \A i \in 1..Len(last'.docs) :
              (last'.docs[i].doc.id # None /\ i \notin RaisedIndices(last'.docs)) =>
                  last'.outcomes[i] \in {"inserted", "updated", "skipped"}

C25_OnlyFetchAndCommitAbort == [][C25_Step]_vars

---------------------------------------------------------------------------
\* C26: when a batch carries more than one document with the same id, the
\* pass commits and the invoice stored for that id carries the values of the
\* last document with that id in batch order, whether or not an invoice for
\* the id existed before the pass.
C26_Repeated(docs) ==
    {docs[i].doc.id[1] : i \in {k \in 1..Len(docs) :
        /\ docs[k].doc.id # None
        /\ \E j \in 1..Len(docs) : j # k /\ docs[j].doc.id = docs[k].doc.id}}

C26_LastWith(docs, d) ==
    docs[CHOOSE i \in 1..Len(docs) :
            /\ docs[i].doc.id = Some(d)
            /\ \A j \in 1..Len(docs) : docs[j].doc.id = Some(d) => j <= i]

C26_Step ==
    (/\ last'.op = "sync"
     /\ last' # last
     /\ C26_Repeated(last'.docs) # {})
    => /\ last'.committed
       /\ \A d \in C26_Repeated(last'.docs) :
            /\ Cardinality({r \in 1..Len(invoices') : invoices'[r].paperless_doc_id = d}) = 1
            /\ LET inv == invoices'[RowOf(invoices', d)]
                   doc == C26_LastWith(last'.docs, d)
               IN /\ inv.title = doc.doc.title
                  /\ inv.vendor_auto = doc.extract.fields.vendor
                  /\ inv.amount_auto = doc.extract.fields.amount

C26_DuplicateIdsLastWins == [][C26_Step]_vars

---------------------------------------------------------------------------
\* C27: a document whose creation timestamp cannot be parsed is not failed:
\* the pass counts it as inserted, updated or skipped, counts no error for it,
\* and the paperless_created of its invoice is null after the pass.
C27_Unparseable(item) ==
    /\ item.doc.created # None
    /\ item.doc.created[1] \notin
          {"", "2026-01-15", "2026-01-15T10:00:00", "2026-01-15T10:00:00Z"}

C27_Step ==
    SyncCommitted =>
        \A i \in 1..Len(last'.docs) :
            LET item == last'.docs[i]
            IN (/\ item.doc.id # None
                /\ item.extract.error = None
                /\ C27_Unparseable(item))
               => /\ last'.outcomes[i] \in {"inserted", "updated", "skipped"}
                  /\ last'.response[1].errors.count
                        = Cardinality(RaisedIndices(last'.docs))
                  /\ HasRow(invoices', item.doc.id[1])
                  /\ invoices'[RowOf(invoices', item.doc.id[1])].paperless_created = None

C27_UnparseableCreated == [][C27_Step]_vars

\* a pass updated invoice 1, stored with a creation time, from a document whose
\* timestamp could not be parsed, and inserted document 2 with such a timestamp
C27_Witness ==
    /\ last.op = "sync"
    /\ last.committed
    /\ Len(last.docs) = 2
    /\ \A i \in 1..2 : last.docs[i].doc.created = Some("15.01.2026")
    /\ last.outcomes = <<"updated", "inserted">>
    /\ last.response[1].errors.count = 0
    /\ Len(sync_runs) = 2
    /\ Len(invoices) = 2
    /\ \A r \in 1..2 : invoices[r].paperless_created = None
    /\ clock = 0

---------------------------------------------------------------------------
\* C28: a pass changes only invoices whose id is in the fetched batch: every
\* invoice whose id is not in the batch has all fields unchanged after the
\* pass, and no pass deletes an invoice, so the set of stored ids never
\* shrinks.
C28_BatchIds(docs) ==
    {docs[i].doc.id[1] : i \in {j \in 1..Len(docs) : docs[j].doc.id # None}}

C28_StoredIds(table) == {table[r].paperless_doc_id : r \in 1..Len(table)}

C28_Step ==
    /\ C28_StoredIds(invoices) \subseteq C28_StoredIds(invoices')
    /\ Len(invoices') >= Len(invoices)
    /\ last'.op = "sync" =>
        \A r \in 1..Len(invoices) :
            invoices[r].paperless_doc_id \notin C28_BatchIds(last'.docs) =>
                invoices'[r] = invoices[r]

C28_OnlyBatchInvoicesChange == [][C28_Step]_vars

\* a pass over document 2 alone, after the clock moved, wrote invoice 2 and
\* left invoice 1 with the times of the pass that inserted it
C28_Witness ==
    /\ last.op = "sync"
    /\ last.committed
    /\ C28_BatchIds(last.docs) = {2}
    /\ last.outcomes = <<"updated">>
    /\ Len(invoices) = 2
    /\ invoices[RowOf(invoices, 1)].updated_at < clock
    /\ invoices[RowOf(invoices, 1)].extracted_at < clock
    /\ invoices[RowOf(invoices, 2)].updated_at = clock

---------------------------------------------------------------------------
\* C29: when a scheduled pass and a POST /sync pass overlap, their merge
\* phases, from the load of the invoices through the commit, do not
\* interleave; so a pass never inserts an invoice for an id that is stored
\* when it commits, and the commit of a pass whose batch lists no id twice
\* does not fail on the unique constraint.
C29_NoIdTwice(docs) ==
    \A i, j \in 1..Len(docs) :
        (i # j /\ docs[i].doc.id # None) => docs[i].doc.id # docs[j].doc.id

C29_Step ==
    /\ \A c, x \in Callers :
            (inflight[c].pc = "merging" /\ inflight[x].pc = "merging") => c = x
    /\ \A c \in Callers :
            (inflight[c].pc = "merging" /\ inflight'[c].pc = "idle"
                /\ C29_NoIdTwice(inflight[c].docs))
            => /\ last'.committed
               /\ \A i \in 1..Len(inflight[c].docs) :
                      inflight[c].L.outcomes[i] = "inserted" =>
                          ~HasRow(invoices, inflight[c].docs[i].doc.id[1])

---------------------------------------------------------------------------
\* C30: a manual edit that commits while a pass is under way is not
\* clobbered.  If update_invoice commits a value for F with F_source = manual
\* after the pass loaded the invoice and before the pass commits, then after
\* the commit of the pass F is the user's value and F_source is manual.
C30_EditedSinceLoad(loaded, current, F) ==
    /\ current[F \o "_source"] = "manual"
    /\ \/ loaded[F \o "_source"] # "manual"
       \/ loaded[F] # current[F]

C30_Step ==
    \A c \in Callers :
        (inflight[c].pc = "merging" /\ inflight'[c].pc = "idle" /\ last'.committed) =>
            \A d \in DOMAIN inflight[c].L.existing :
                LET r == inflight[c].L.existing[d].id
                IN \A F \in {"vendor", "amount"} :
                    C30_EditedSinceLoad(inflight[c].L.existing[d].row, invoices[r], F)
                    => /\ invoices'[r][F] = invoices[r][F]
                       /\ invoices'[r][F \o "_source"] = "manual"

C30_EditInFlightSurvives == [][C30_Step]_vars

====
